---- MODULE Spec2Model ----
(***************************************************************************)
(* Model of the rx-player segment-container layer:                         *)
(*   - BufferingQueue (src/unnamed/part_000): the serialized queue in      *)
(*     front of a SourceBuffer;                                            *)
(*   - findAtom / getAtomContent / parseSidx (src/src/net/dash/mp4.js).    *)
(***************************************************************************)
EXTENDS Integers, Sequences, FiniteSets, TLC

\* ------------------------------------------------------------------ bounds
\* Number of queueAction calls made in one behaviour.
MaxOps == 3

\* ------------------------------------------------------- BufferingQueue
\* this.flushing = null
NULL == 0
\* this.buffer = null
NOBUFFER == "null"

BUFFER_APPEND == "append"
BUFFER_REMOVE == "remove"
BUFFER_STREAM == "stream"

\* Payloads handed to appendBuffer / appendStream / removeBuffer.
Payloads(type) ==
  CASE type = BUFFER_APPEND -> {<<"bytes">>}
    [] type = BUFFER_STREAM -> {<<"handle">>}
    [] type = BUFFER_REMOVE -> {<<"start", "end">>}

VARIABLES
  queue,      \* this.queue, in array order: queue[1] is index 0
  flushing,   \* this.flushing: the Subject in flight, or NULL
  buffer,     \* this.buffer: "sourceBuffer" or NOBUFFER
  listeners,  \* events of the SourceBuffer this queue is subscribed to
  updating,   \* sourceBuffer.updating
  resOp,      \* Subject of the queue operation the SourceBuffer is running
  endPending, \* the SourceBuffer has an updateend event left to fire
  calls,      \* primitives invoked on the SourceBuffer, in order
  notif,      \* next/complete/error calls made on the Subjects, in order
  nextSubj,   \* identity of the next new Subject()
  raised,     \* what the last call into the queue threw ("none": returned)
  buf,        \* mp4.js: the Uint8Array given to the function, as bytes
  arg,        \* mp4.js: the other argument, atomName or parseSidx's offset
  made,       \* mp4.js: what buf was built from
  out,        \* mp4.js: what the call returned or threw
  pc          \* mp4.js: "ready", or the function that has been called

avars == <<buf, arg, made, out, pc>>

qvars == <<queue, flushing, buffer, listeners, updating, resOp, endPending,
           calls, notif, nextSubj, raised>>

\* The state a handler runs on; a handler maps one such record to the next.
Cur ==
  [queue |-> queue, flushing |-> flushing, buffer |-> buffer,
   listeners |-> listeners, updating |-> updating, resOp |-> resOp,
   endPending |-> endPending, calls |-> calls, notif |-> notif,
   nextSubj |-> nextSubj, raised |-> "none"]

Commit(s) ==
  /\ queue' = s.queue
  /\ flushing' = s.flushing
  /\ buffer' = s.buffer
  /\ listeners' = s.listeners
  /\ updating' = s.updating
  /\ resOp' = s.resOp
  /\ endPending' = s.endPending
  /\ calls' = s.calls
  /\ notif' = s.notif
  /\ nextSubj' = s.nextSubj
  /\ raised' = s.raised
  /\ UNCHANGED avars

\* constructor(sourceBuffer)
QInit ==
  /\ queue = <<>>
  /\ flushing = NULL
  /\ buffer = "sourceBuffer"
  /\ listeners = {"update", "error", "updateend"}
  /\ updating = FALSE
  /\ resOp = NULL
  /\ endPending = FALSE
  /\ calls = <<>>
  /\ notif = <<>>
  /\ nextSubj = 1
  /\ raised = "none"

\* dispose that leaves the three listeners registered
disposeKeepsListeners(s) ==
  IF s.buffer = NOBUFFER
  THEN [s EXCEPT !.raised = "TypeError"]
  ELSE [s EXCEPT !.buffer = NOBUFFER,
                 !.queue = <<>>,
                 !.flushing = NULL]

\* dispose(); on a disposed queue this.buffer is null and the first line throws
dispose(s) ==
  IF s.buffer = NOBUFFER
  THEN [s EXCEPT !.raised = "TypeError"]
  ELSE [s EXCEPT !.listeners = {},
                 !.buffer = NOBUFFER,
                 !.queue = <<>>,
                 !.flushing = NULL]

\* What complete() carries: nothing.
NoValue == [type |-> "none", op |-> NULL]

\* onUpdate that forgets this.flushing = null
onUpdateKeepsFlushing(s, evt) ==
  IF s.flushing # NULL
  THEN [s EXCEPT !.notif = @ \o <<[subj |-> s.flushing, k |-> "next", v |-> evt],
                                  [subj |-> s.flushing, k |-> "complete", v |-> NoValue]>>]
  ELSE s

\* onUpdate(evt)
onUpdate(s, evt) ==
  IF s.flushing # NULL
  THEN [s EXCEPT !.notif = @ \o <<[subj |-> s.flushing, k |-> "next", v |-> evt],
                                  [subj |-> s.flushing, k |-> "complete", v |-> NoValue]>>,
                 !.flushing = NULL]
  ELSE s

\* onError(error)
onError(s, error) ==
  IF s.flushing # NULL
  THEN [s EXCEPT !.notif = @ \o <<[subj |-> s.flushing, k |-> "error", v |-> error]>>,
                 !.flushing = NULL]
  ELSE s

\* The switch with remove's arguments exchanged
PrimitiveSwapped(type, args) ==
  CASE type = BUFFER_APPEND -> [prim |-> "appendBuffer", args |-> args]
    [] type = BUFFER_STREAM -> [prim |-> "appendStream", args |-> args]
    [] type = BUFFER_REMOVE -> [prim |-> "remove", args |-> <<args[2], args[1]>>]

\* The switch of flush: the primitive invoked for an entry.
Primitive(type, args) ==
  CASE type = BUFFER_APPEND -> [prim |-> "appendBuffer", args |-> args]
    [] type = BUFFER_STREAM -> [prim |-> "appendStream", args |-> args]
    [] type = BUFFER_REMOVE -> [prim |-> "remove", args |-> <<args[1], args[2]>>]

\* The entry popped by flush, its Subject in flight, its primitive invoked.
\* busy / running: sourceBuffer.updating and the queue operation the
\* SourceBuffer was still running when the primitive was invoked.
Dispatched(s) ==
  LET e == s.queue[Len(s.queue)]
      call == [subj |-> e.subj, type |-> e.type, payload |-> e.args,
               busy |-> s.updating, running |-> s.resOp]
              @@ Primitive(e.type, e.args)
  IN [s EXCEPT !.queue = SubSeq(@, 1, Len(@) - 1),
               !.flushing = e.subj,
               !.calls = Append(@, call)]

\* The SourceBuffer accepts the operation of the Subject in flight.
Accepted(s) ==
  [s EXCEPT !.updating = TRUE, !.resOp = s.flushing]

\* What the primitive throws when it raises.
Exception(s) ==
  [type |-> "exception", op |-> s.flushing]

\* flush without the this.buffer.updating test
flushIgnoresUpdating(s, raises) ==
  IF s.flushing # NULL \/ Len(s.queue) = 0
  THEN s
  ELSE IF s.buffer = NOBUFFER
  THEN [s EXCEPT !.raised = "TypeError"]
  ELSE
    LET s1 == Dispatched(s)
    IN IF raises THEN onError(s1, Exception(s1)) ELSE Accepted(s1)

\* flush without the try/catch around the primitive
flushNoCatch(s, raises) ==
  IF s.flushing # NULL \/ Len(s.queue) = 0
  THEN s
  ELSE IF s.buffer = NOBUFFER
  THEN [s EXCEPT !.raised = "TypeError"]
  ELSE IF s.updating
  THEN s
  ELSE
    LET s1 == Dispatched(s)
    IN IF raises THEN [s1 EXCEPT !.raised = "exception"] ELSE Accepted(s1)

\* flush(); raises: the primitive invoked throws instead of starting.
\* On a disposed queue with a waiting entry, this.buffer.updating throws.
flush(s, raises) ==
  IF s.flushing # NULL \/ Len(s.queue) = 0
  THEN s
  ELSE IF s.buffer = NOBUFFER
  THEN [s EXCEPT !.raised = "TypeError"]
  ELSE IF s.updating
  THEN s
  ELSE
    LET s1 == Dispatched(s)
    IN IF raises THEN onError(s1, Exception(s1)) ELSE Accepted(s1)

\* queueAction with push in place of unshift
queueActionPush(s, type, args, raises) ==
  LET subj == s.nextSubj
      s1 == [s EXCEPT !.queue = @ \o <<[type |-> type, args |-> args, subj |-> subj]>>,
                      !.nextSubj = @ + 1]
  IN IF Len(s1.queue) = 1 THEN flush(s1, raises) ELSE s1

\* queueAction(type, args)
queueAction(s, type, args, raises) ==
  LET subj == s.nextSubj
      s1 == [s EXCEPT !.queue = <<[type |-> type, args |-> args, subj |-> subj]>> \o @,
                      !.nextSubj = @ + 1]
  IN IF Len(s1.queue) = 1 THEN flush(s1, raises) ELSE s1

\* appendBuffer / appendStream / removeBuffer called by a producer
Enqueue ==
  /\ nextSubj <= MaxOps
  /\ \E type \in {BUFFER_APPEND, BUFFER_STREAM, BUFFER_REMOVE} :
       \E args \in Payloads(type) :
         \E raises \in BOOLEAN :
           Commit(queueAction(Cur, type, args, raises))

Dispose ==
  /\ TRUE
  /\ Commit(dispose(Cur))

\* The SourceBuffer ends its operation: updating becomes false and the update
\* (ok) or error event is fired at the listeners. The SourceBuffer is taken
\* to clear updating and fire the event in one task, updateend following in
\* a later one; it answers an operation it accepted with exactly one update
\* or error, and an operation whose primitive threw with no event at all.
EvDone ==
  /\ updating
  /\ ~endPending
  /\ \E ok \in BOOLEAN :
       LET s0 == [Cur EXCEPT !.updating = FALSE, !.resOp = NULL,
                             !.endPending = TRUE]
           evt == [type |-> IF ok THEN "update" ELSE "error", op |-> resOp]
       IN IF ok
          THEN Commit(IF "update" \in listeners THEN onUpdate(s0, evt) ELSE s0)
          ELSE Commit(IF "error" \in listeners THEN onError(s0, evt) ELSE s0)

\* The SourceBuffer fires updateend
EvUpdateEnd ==
  /\ endPending
  /\ \E raises \in BOOLEAN :
       LET s0 == [Cur EXCEPT !.endPending = FALSE]
       IN Commit(IF "updateend" \in listeners THEN flush(s0, raises) ELSE s0)

\* An operation is started on the SourceBuffer through another channel.
ExtStart ==
  /\ ~updating
  /\ Commit([Cur EXCEPT !.updating = TRUE, !.resOp = NULL])

\* onUpdate(evt) when the observer of the Subject in flight calls back into
\* the queue from inside next(evt): react "dispose" calls dispose(), react
\* "enqueue" calls queueAction(type, args). this.flushing is read again for
\* complete(), and is null after a dispose.
onUpdateObserved(s, evt, react, type, args, raises) ==
  IF s.flushing # NULL
  THEN LET s1 == [s EXCEPT !.notif = Append(@, [subj |-> s.flushing, k |-> "next",
                                                v |-> evt])]
           s2 == IF react = "dispose"
                 THEN dispose(s1)
                 ELSE queueAction(s1, type, args, raises)
       IN IF s2.flushing = NULL
          THEN [s2 EXCEPT !.raised = "TypeError"]
          ELSE [s2 EXCEPT !.notif = Append(@, [subj |-> s2.flushing, k |-> "complete",
                                               v |-> NoValue]),
                          !.flushing = NULL]
  ELSE s

\* The SourceBuffer ends the operation in flight with an update event, and
\* the observer of its Subject calls dispose() or enqueues from inside the
\* notification.
EvDoneObserved ==
  /\ updating
  /\ ~endPending
  /\ "update" \in listeners
  /\ flushing # NULL
  /\ LET s0 == [Cur EXCEPT !.updating = FALSE, !.resOp = NULL,
                           !.endPending = TRUE]
         evt == [type |-> "update", op |-> resOp]
     IN \/ Commit(onUpdateObserved(s0, evt, "dispose", BUFFER_APPEND,
                                   <<"bytes">>, FALSE))
        \/ /\ nextSubj <= MaxOps
           /\ \E type \in {BUFFER_APPEND, BUFFER_STREAM, BUFFER_REMOVE} :
                \E args \in Payloads(type) :
                  \E raises \in BOOLEAN :
                    Commit(onUpdateObserved(s0, evt, "enqueue", type, args, raises))

\* ------------------------------------------------------------- mp4.js
\* Boxes in a buffer of one behaviour, and reference records in a sidx box.
MaxBoxes == 3

\* let name, size; (declared, not yet assigned)
UNDEFINED == -1

\* utils/bytes be4toi(bytes, off): big-endian 32 bits at byte offset off
be4toi(b, off) ==
  b[off + 1] * 16777216 + b[off + 2] * 65536 + b[off + 3] * 256 + b[off + 4]

\* utils/bytes be2toi(bytes, off)
be2toi(b, off) ==
  b[off + 1] * 256 + b[off + 2]

\* utils/bytes itobe4(num)
itobe4(n) ==
  <<(n \div 16777216) % 256, (n \div 65536) % 256, (n \div 256) % 256, n % 256>>

\* Uint8Array.prototype.subarray(begin, end): both ends clamped to the array
subarray(b, begin, end) ==
  LET lo == IF begin > Len(b) THEN Len(b) ELSE begin
      hi == IF end > Len(b) THEN Len(b) ELSE end
  IN IF hi <= lo THEN <<>> ELSE SubSeq(b, lo + 1, hi)

\* Outcomes of a call.
Returned(kind, num, bytes) ==
  [kind |-> kind, num |-> num, bytes |-> bytes, msg |-> ""]

Thrown(msg) ==
  [kind |-> "error", num |-> 0, bytes |-> <<>>, msg |-> msg]

NoOut == Returned("none", 0, <<>>)

\* The while loop shared by findAtom and getAtomContent, from offset i with
\* the last size read; threw: assert(size > 0) failed.
RECURSIVE scanAtoms(_, _, _, _)
scanAtoms(b, atomName, i, size) ==
  IF i + 8 < Len(b)
  THEN LET sz == be4toi(b, i)
           name == be4toi(b, i + 4)
       IN IF ~(sz > 0)
          THEN [i |-> i, size |-> sz, threw |-> TRUE]
          ELSE IF name = atomName
          THEN [i |-> i, size |-> sz, threw |-> FALSE]
          ELSE scanAtoms(b, atomName, i + sz, sz)
  ELSE [i |-> i, size |-> size, threw |-> FALSE]

\* findAtom(buf, atomName); with size undefined i + size is NaN and the
\* assertion fails
findAtom(b, atomName) ==
  LET r == scanAtoms(b, atomName, 0, UNDEFINED)
  IN IF r.threw
     THEN Thrown("dash: out of range size")
     ELSE IF r.i >= Len(b)
     THEN Returned("number", -1, <<>>)
     ELSE IF r.size # UNDEFINED /\ r.i + r.size <= Len(b)
     THEN Returned("number", r.i, <<>>)
     ELSE Thrown("dash: atom out of range")

\* getAtomContent(buf, atomName); with size undefined the end of the
\* subarray is NaN, taken as 0
getAtomContent(b, atomName) ==
  LET r == scanAtoms(b, atomName, 0, UNDEFINED)
  IN IF r.threw
     THEN Thrown("dash: out of range size")
     ELSE IF r.i < Len(b)
     THEN Returned("bytes", 0,
                   subarray(b, r.i + 8, IF r.size = UNDEFINED THEN 0 ELSE r.i + r.size))
     ELSE Returned("null", 0, <<>>)

\* Box names, as bytes and as the numbers findAtom compares.
NameBytes(name) ==
  CASE name = "moov" -> <<109, 111, 111, 118>>
    [] name = "sidx" -> <<115, 105, 100, 120>>
    [] name = "mdat" -> <<109, 100, 97, 116>>
    [] name = "free" -> <<102, 114, 101, 101>>

NameCode(name) == be4toi(NameBytes(name), 0)

\* Buffers the functions are given: a run of boxes, each with a declared
\* size and the bytes it really takes (header first, body bytes 1, 2, ...).
BoxBytes(box) ==
  SubSeq(itobe4(box.size) \o NameBytes(box.name) \o [k \in 1..box.len |-> k],
         1, box.len)

RECURSIVE Concat(_)
Concat(ss) ==
  IF ss = <<>> THEN <<>> ELSE Head(ss) \o Concat(Tail(ss))

BoxPool ==
  {[name |-> "free", size |-> 8, len |-> 8],
   [name |-> "moov", size |-> 8, len |-> 8],
   [name |-> "mdat", size |-> 12, len |-> 12],
   [name |-> "moov", size |-> 12, len |-> 12],
   [name |-> "free", size |-> 0, len |-> 8],
   [name |-> "moov", size |-> 0, len |-> 12],
   [name |-> "free", size |-> 32, len |-> 12],
   [name |-> "moov", size |-> 32, len |-> 12],
   [name |-> "mdat", size |-> 9, len |-> 10]}

BoxRuns == UNION {[1..n -> BoxPool] : n \in 0..MaxBoxes}

AtomNames == {"moov", "mdat", "free"}

AIdle ==
  /\ buf = <<>>
  /\ arg = 0
  /\ made = <<>>
  /\ out = NoOut
  /\ pc = "ready"

AInit ==
  /\ QInit
  /\ made \in BoxRuns
  /\ buf = Concat([k \in 1..Len(made) |-> BoxBytes(made[k])])
  /\ arg = 0
  /\ out = NoOut
  /\ pc = "ready"

CallFindAtom ==
  /\ pc = "ready"
  /\ \E name \in AtomNames :
       /\ arg' = NameCode(name)
       /\ out' = findAtom(buf, NameCode(name))
  /\ pc' = "findAtom"
  /\ UNCHANGED <<buf, made>>
  /\ UNCHANGED qvars

CallGetAtomContent ==
  /\ pc = "ready"
  /\ \E name \in AtomNames :
       /\ arg' = NameCode(name)
       /\ out' = getAtomContent(buf, NameCode(name))
  /\ pc' = "getAtomContent"
  /\ UNCHANGED <<buf, made>>
  /\ UNCHANGED qvars

ANext ==
  \/ CallFindAtom
  \/ CallGetAtomContent

\* ---------------------------------------------------------- parseSidx
\* Reference records in one sidx box.
MaxRefs == 2

\* 0x73696478, "sidx"
SIDX == 1936286840

\* utils/bytes be8toi(bytes, off): big-endian 64 bits
be8toi(b, off) ==
  be4toi(b, off) * 65536 * 65536 + be4toi(b, off + 4)

\* (refChunk & 0x80000000) >>> 31 of the 32 bits at pos
refTypeAt(b, pos) ==
  b[pos + 1] \div 128

\* refChunk & 0x7fffffff of the 32 bits at pos
refSizeAt(b, pos) ==
  (b[pos + 1] % 128) * 16777216 + b[pos + 2] * 65536 + b[pos + 3] * 256 + b[pos + 4]

\* offset += first_offset, without the size of the sidx box
firstByteWithoutSize(offset, first, size) ==
  offset + first

\* offset += be4toi(buf, pos) + size (be8toi in version 1)
firstByte(offset, first, size) ==
  offset + first + size

\* The loop with the "not implemented" throw left out: a record of type 1 is
\* passed over
RECURSIVE sidxSegmentsSkipsIndexRefs(_, _, _, _, _, _)
sidxSegmentsSkipsIndexRefs(b, pos, count, time, offset, segments) ==
  IF count - 1 >= 0
  THEN IF refTypeAt(b, pos) = 1
       THEN sidxSegmentsSkipsIndexRefs(b, pos + 12, count - 1, time, offset, segments)
       ELSE LET refSize == refSizeAt(b, pos)
                d == be4toi(b, pos + 4)
                seg == [ts |-> time, d |-> d, r |-> 0,
                        range |-> <<offset, offset + refSize - 1>>]
            IN sidxSegmentsSkipsIndexRefs(b, pos + 12, count - 1, time + d,
                                          offset + refSize, Append(segments, seg))
  ELSE [threw |-> FALSE, segments |-> segments]

\* The loop without time += d
RECURSIVE sidxSegmentsKeepsTime(_, _, _, _, _, _)
sidxSegmentsKeepsTime(b, pos, count, time, offset, segments) ==
  IF count - 1 >= 0
  THEN IF refTypeAt(b, pos) = 1
       THEN [threw |-> TRUE, segments |-> <<>>]
       ELSE LET refSize == refSizeAt(b, pos)
                d == be4toi(b, pos + 4)
                seg == [ts |-> time, d |-> d, r |-> 0,
                        range |-> <<offset, offset + refSize - 1>>]
            IN sidxSegmentsKeepsTime(b, pos + 12, count - 1, time,
                                     offset + refSize, Append(segments, seg))
  ELSE [threw |-> FALSE, segments |-> segments]

\* The while (--count >= 0) loop over the reference records
RECURSIVE sidxSegments(_, _, _, _, _, _)
sidxSegments(b, pos, count, time, offset, segments) ==
  IF count - 1 >= 0
  THEN IF refTypeAt(b, pos) = 1
       THEN [threw |-> TRUE, segments |-> <<>>]
       ELSE LET refSize == refSizeAt(b, pos)
                d == be4toi(b, pos + 4)
                seg == [ts |-> time, d |-> d, r |-> 0,
                        range |-> <<offset, offset + refSize - 1>>]
            IN sidxSegments(b, pos + 12, count - 1, time + d, offset + refSize,
                            Append(segments, seg))
  ELSE [threw |-> FALSE, segments |-> segments]

SidxOut(kind, segments, timescale, msg) ==
  [kind |-> kind, segments |-> segments, timescale |-> timescale, msg |-> msg]

\* parseSidx(buf, offset)
parseSidx(b, offset) ==
  LET found == findAtom(b, SIDX)
  IN IF found.kind = "error"
     THEN SidxOut("error", <<>>, 0, found.msg)
     ELSE IF found.num = -1
     THEN SidxOut("null", <<>>, 0, "")
     ELSE
       LET index == found.num
           size == be4toi(b, index)
           version == b[index + 8 + 1]
           timescale == be4toi(b, index + 16)
           pos == index + 20
       IN IF version \notin {0, 1}
          THEN SidxOut("null", <<>>, 0, "")
          ELSE
            LET time == IF version = 0 THEN be4toi(b, pos) ELSE be8toi(b, pos)
                first == IF version = 0 THEN be4toi(b, pos + 4) ELSE be8toi(b, pos + 8)
                pos2 == IF version = 0 THEN pos + 8 ELSE pos + 16
                count == be2toi(b, pos2 + 2)
                r == sidxSegments(b, pos2 + 4, count, time,
                                  firstByte(offset, first, size), <<>>)
            IN IF r.threw
               THEN SidxOut("error", <<>>, 0, "not implemented")
               ELSE SidxOut("object", r.segments, timescale, "")

\* sidx boxes the function is given: made.version, made.timescale, made.ept,
\* made.first, made.refs, between the boxes made.pre and made.post.
SidxSize(m) ==
  (IF m.version = 1 THEN 40 ELSE 32) + 12 * Len(m.refs)

RefBytes(ref) ==
  <<ref.type * 128 + ((ref.size \div 16777216) % 128), (ref.size \div 65536) % 256,
    (ref.size \div 256) % 256, ref.size % 256>>
  \o itobe4(ref.d) \o itobe4(0)

SidxBytes(m) ==
  itobe4(SidxSize(m)) \o NameBytes("sidx")
  \o <<m.version, 0, 0, 0>> \o itobe4(1) \o itobe4(m.timescale)
  \o (IF m.version = 1
      THEN itobe4(0) \o itobe4(m.ept) \o itobe4(0) \o itobe4(m.first)
      ELSE itobe4(m.ept) \o itobe4(m.first))
  \o <<0, 0, Len(m.refs) \div 256, Len(m.refs) % 256>>
  \o Concat([k \in 1..Len(m.refs) |-> RefBytes(m.refs[k])])

RefPool ==
  {[type |-> 0, size |-> 100, d |-> 500],
   [type |-> 0, size |-> 150, d |-> 500],
   [type |-> 1, size |-> 100, d |-> 500]}

SidxInputs ==
  [pre : {<<>>, <<[name |-> "free", size |-> 8, len |-> 8]>>,
          <<[name |-> "moov", size |-> 12, len |-> 12]>>},
   version : {0, 1, 2},
   timescale : {1000},
   ept : {0, 7},
   first : {0, 5},
   refs : UNION {[1..n -> RefPool] : n \in 0..MaxRefs},
   post : {<<>>, <<[name |-> "mdat", size |-> 12, len |-> 12]>>}]

SInit ==
  /\ QInit
  /\ made \in SidxInputs
  /\ buf = Concat([k \in 1..Len(made.pre) |-> BoxBytes(made.pre[k])])
           \o SidxBytes(made)
           \o Concat([k \in 1..Len(made.post) |-> BoxBytes(made.post[k])])
  /\ arg \in {0, 1000}
  /\ out = NoOut
  /\ pc = "ready"

CallParseSidx ==
  /\ pc = "ready"
  /\ out' = parseSidx(buf, arg)
  /\ pc' = "parseSidx"
  /\ UNCHANGED <<buf, arg, made>>
  /\ UNCHANGED qvars

SNext ==
  \/ CallParseSidx

\* ----------------------------------------------- createPssh, patchPssh
\* Descriptors in one list.
MaxPss == 2

\* 0x6d6f6f76, "moov"
MOOV == 1836019574

\* utils/bytes strToBytes(str): the character codes
strToBytes(name) ==
  IF name = "pssh" THEN <<112, 115, 115, 104>> ELSE NameBytes(name)

\* Value of one hexadecimal digit, UNDEFINED for any other character
hexValue(c) ==
  CASE c = "0" -> 0 [] c = "1" -> 1 [] c = "2" -> 2 [] c = "3" -> 3
    [] c = "4" -> 4 [] c = "5" -> 5 [] c = "6" -> 6 [] c = "7" -> 7
    [] c = "8" -> 8 [] c = "9" -> 9 [] c = "a" -> 10 [] c = "b" -> 11
    [] c = "c" -> 12 [] c = "d" -> 13 [] c = "e" -> 14 [] c = "f" -> 15
    [] OTHER -> UNDEFINED

\* utils/bytes hexToBytes(str): parseInt(two characters, 16) & 0xFF for each
\* pair; parseInt stops at the first character that is no digit, and NaN
\* is stored as 0
hexToBytes(str) ==
  [j \in 1..(Len(str) \div 2) |->
     LET hi == hexValue(str[2 * j - 1])
         lo == hexValue(str[2 * j])
     IN IF hi = UNDEFINED THEN 0
        ELSE IF lo = UNDEFINED THEN hi
        ELSE 16 * hi + lo]

\* A number given to utils/bytes concat: that many zeroed bytes
zeroes(n) == [k \in 1..n |-> 0]

\* systemId.replace(/-/g, "")
withoutHyphens(str) == SelectSeq(str, LAMBDA c : c # "-")

\* Atom(name, buff)
Atom(name, buff) ==
  itobe4(Len(buff) + 8) \o strToBytes(name) \o buff

\* createPssh with 8 zeroed bytes before the system id
createPsshEightZeroes(d) ==
  LET systemId == withoutHyphens(d.systemId)
  IN IF Len(systemId) # 32
     THEN Thrown("AssertionError")
     ELSE Returned("bytes", 0,
                   Atom("pssh", zeroes(8) \o hexToBytes(systemId)
                                \o itobe4(Len(d.privateData)) \o d.privateData))

\* createPssh({ systemId, privateData })
createPssh(d) ==
  LET systemId == withoutHyphens(d.systemId)
  IN IF Len(systemId) # 32
     THEN Thrown("AssertionError")
     ELSE Returned("bytes", 0,
                   Atom("pssh", zeroes(4) \o hexToBytes(systemId)
                                \o itobe4(Len(d.privateData)) \o d.privateData))

\* patchPssh(buf, pssList): out is what the call returns or throws, buf the
\* caller's buffer after the call (newmoov is a copy made by concat, and the
\* length is written into the copy).
patchPssh(b, pssList) ==
  IF Len(pssList) = 0
  THEN [out |-> Returned("bytes", 0, b), buf |-> b]
  ELSE
    LET found == findAtom(b, MOOV)
    IN IF found.kind = "error"
       THEN [out |-> found, buf |-> b]
       ELSE IF found.num = -1
       THEN [out |-> Returned("bytes", 0, b), buf |-> b]
       ELSE
         LET pos == found.num
             size == be4toi(b, pos)
             moov == subarray(b, pos, pos + size)
             boxes == [i \in 1..Len(pssList) |-> createPssh(pssList[i])]
             newmoov == moov \o Concat([i \in 1..Len(boxes) |-> boxes[i].bytes])
             patched == itobe4(Len(newmoov)) \o SubSeq(newmoov, 5, Len(newmoov))
         IN IF \E i \in 1..Len(boxes) : boxes[i].kind = "error"
            THEN [out |-> Thrown("AssertionError"), buf |-> b]
            ELSE [out |-> Returned("bytes", 0,
                                   subarray(b, 0, pos) \o patched
                                   \o subarray(b, pos + size, Len(b))),
                  buf |-> b]

\* Buffers patchPssh is given: runs of well-formed boxes.
PsshBoxPool ==
  {[name |-> "free", size |-> 8, len |-> 8],
   [name |-> "moov", size |-> 8, len |-> 8],
   [name |-> "mdat", size |-> 12, len |-> 12],
   [name |-> "moov", size |-> 12, len |-> 12]}

PsshRuns == UNION {[1..n -> PsshBoxPool] : n \in 0..MaxBoxes}

\* System ids as sequences of characters: a hyphenated UUID, 32 digits,
\* 31 digits, and 32 characters the last of which is no digit.
Rep(c, n) == [k \in 1..n |-> c]

SystemIdUuid ==
  Rep("1", 8) \o <<"-">> \o Rep("2", 4) \o <<"-">> \o Rep("3", 4) \o <<"-">>
  \o Rep("4", 4) \o <<"-">> \o Rep("5", 12)

PssPool ==
  {[systemId |-> SystemIdUuid, privateData |-> <<7, 8, 9>>],
   [systemId |-> Rep("a", 32), privateData |-> <<>>],
   [systemId |-> Rep("a", 31), privateData |-> <<7>>],
   [systemId |-> Rep("a", 31) \o <<"g">>, privateData |-> <<7>>]}

PssLists == UNION {[1..n -> PssPool] : n \in 0..MaxPss}

PInit ==
  /\ QInit
  /\ made \in PsshRuns
  /\ buf = Concat([k \in 1..Len(made) |-> BoxBytes(made[k])])
  /\ arg \in PssLists
  /\ out = NoOut
  /\ pc = "ready"

CallPatchPssh ==
  /\ pc = "ready"
  /\ LET r == patchPssh(buf, arg)
     IN /\ out' = r.out
        /\ buf' = r.buf
  /\ pc' = "patchPssh"
  /\ UNCHANGED <<arg, made>>
  /\ UNCHANGED qvars

\* createPssh on the first descriptor of the list
CallCreatePssh ==
  /\ pc = "ready"
  /\ Len(arg) >= 1
  /\ out' = createPssh(arg[1])
  /\ pc' = "createPssh"
  /\ UNCHANGED <<buf, arg, made>>
  /\ UNCHANGED qvars

PNext ==
  \/ CallPatchPssh
  \/ CallCreatePssh

vars == <<qvars, avars>>

QNext ==
  \/ Enqueue
  \/ Dispose
  \/ EvDone
  \/ EvUpdateEnd
  \/ ExtStart

\* The queue in front of one SourceBuffer.
Init == QInit /\ AIdle

Spec == Init /\ [][QNext]_vars

ONext ==
  \/ Enqueue
  \/ Dispose
  \/ EvDone
  \/ EvUpdateEnd
  \/ ExtStart
  \/ EvDoneObserved

\* The queue with observers that call back into it from a notification.
SpecObserver == Init /\ [][ONext]_vars

\* findAtom and getAtomContent on one buffer.
SpecAtom == AInit /\ [][ANext]_vars

\* parseSidx on one buffer holding a sidx box.
SpecSidx == SInit /\ [][SNext]_vars

\* patchPssh and createPssh on one buffer and one descriptor list.
SpecPssh == PInit /\ [][PNext]_vars

\* --------------------------------------------------- claims on the queue
Subjects == 1..(nextSubj - 1)

NotifOf(h) == SelectSeq(notif, LAMBDA n : n.subj = h)

DispatchedSubjects == {calls[i].subj : i \in 1..Len(calls)}

SettledSubjects == {notif[i].subj : i \in 1..Len(notif)}

QueuedSubjects == {queue[i].subj : i \in 1..Len(queue)}

\* C1: no primitive is ever invoked on the SourceBuffer while it is updating
\* or still runs an operation the queue dispatched earlier; at most one
\* dispatched operation is unsettled at any time.
C1_OneOutstanding ==
  /\ \A i \in 1..Len(calls) : ~calls[i].busy /\ calls[i].running = NULL
  /\ Cardinality(DispatchedSubjects \ SettledSubjects) <= 1

\* A second operation is in flight while a third entry waits.
C1_Witness ==
  /\ Len(calls) >= 2
  /\ flushing # NULL
  /\ updating
  /\ Len(queue) >= 1

\* C2: primitives are invoked, and Subjects settled, in the order of the
\* queueAction calls; no entry is dispatched while an older one still waits.
C2_Fifo ==
  /\ \A i, j \in 1..Len(calls) : i < j => calls[i].subj < calls[j].subj
  /\ \A i, j \in 1..Len(notif) : i < j => notif[i].subj <= notif[j].subj
  /\ \A a \in QueuedSubjects : \A b \in DispatchedSubjects : b < a
  /\ \A i, j \in 1..Len(queue) : i < j => queue[i].subj > queue[j].subj

\* Three entries dispatched in turn, the first two settled.
C2_Witness ==
  /\ Len(calls) = 3
  /\ Cardinality(SettledSubjects) >= 2

\* C3: once the in-flight entry has settled and the SourceBuffer is at rest
\* (not updating, no updateend left to fire), the queue has dispatched the
\* next entry: nothing waits in the FIFO with nothing in flight.
C3_RedispatchAfterSettle ==
  (buffer # NOBUFFER /\ ~updating /\ ~endPending /\ flushing = NULL)
    => queue = <<>>

\* C4: every Subject receives nothing, or next(its own update event) then
\* complete(), or one error(), and never anything more.
C4_SettledOnce ==
  \A h \in Subjects :
    \/ NotifOf(h) = <<>>
    \/ NotifOf(h) = <<[subj |-> h, k |-> "next", v |-> [type |-> "update", op |-> h]],
                      [subj |-> h, k |-> "complete", v |-> NoValue]>>
    \/ /\ Len(NotifOf(h)) = 1
       /\ NotifOf(h)[1].k = "error"

\* One Subject has succeeded, and the SourceBuffer has since ended an
\* operation started through another channel.
C4_Witness ==
  /\ \E h \in Subjects : Len(NotifOf(h)) = 2
  /\ endPending
  /\ flushing = NULL
  /\ Len(calls) = 1

\* C5: an error of the SourceBuffer, thrown by the primitive or fired as an
\* error event, reaches the Subject of the operation that failed and no
\* other; the failed entry is neither back in the FIFO nor invoked again; and
\* the error is not thrown out of the call into the queue.
C5_ErrorToOwner ==
  /\ \A i \in 1..Len(notif) :
       notif[i].k = "error" =>
         /\ notif[i].v.op = notif[i].subj
         /\ notif[i].v.type \in {"error", "exception"}
         /\ notif[i].subj \notin QueuedSubjects
         /\ Cardinality({j \in 1..Len(calls) : calls[j].subj = notif[i].subj}) = 1
         /\ \A j \in 1..Len(notif) : notif[j].v = notif[i].v => j = i
  /\ raised # "exception"
  /\ raised # "error"

\* One operation has failed by throwing, another by an error event.
C5_Witness ==
  /\ \E i \in 1..Len(notif) : notif[i].k = "error" /\ notif[i].v.type = "exception"
  /\ \E i \in 1..Len(notif) : notif[i].k = "error" /\ notif[i].v.type = "error"

\* A step in which the SourceBuffer fires update or error, or updateend.
EventStep ==
  \/ updating /\ ~updating'
  \/ endPending /\ ~endPending'

\* C6: once disposed, no Subject is notified and no primitive is invoked any
\* more, and an event of the SourceBuffer changes nothing in the queue and
\* throws nothing.
C6_DisposedInert ==
  [][buffer = NOBUFFER =>
       /\ notif' = notif
       /\ calls' = calls
       /\ EventStep =>
            /\ <<queue, flushing, buffer, listeners>>' = <<queue, flushing, buffer, listeners>>
            /\ raised' = "none"]_vars

\* Disposed with an operation in flight, whose events have since fired.
C6_Witness ==
  /\ buffer = NOBUFFER
  /\ DispatchedSubjects \ SettledSubjects # {}
  /\ ~updating
  /\ ~endPending

\* A queueAction call made on an idle queue: FIFO empty, nothing in flight,
\* SourceBuffer not updating.
IdleEnqueue ==
  /\ nextSubj' = nextSubj + 1
  /\ buffer # NOBUFFER
  /\ queue = <<>>
  /\ flushing = NULL
  /\ ~updating

\* The call made by that queueAction: the primitive of the entry's kind with
\* the entry's payload.
MatchingCall ==
  /\ Len(calls') = Len(calls) + 1
  /\ SubSeq(calls', 1, Len(calls)) = calls
  /\ LET c == calls'[Len(calls')]
     IN /\ c.subj = nextSubj
        /\ \/ c.type = BUFFER_APPEND /\ c.prim = "appendBuffer" /\ c.args = c.payload
           \/ c.type = BUFFER_STREAM /\ c.prim = "appendStream" /\ c.args = c.payload
           \/ c.type = BUFFER_REMOVE /\ c.prim = "remove" /\ c.args = c.payload
  /\ queue' = <<>>

\* C7 as stated: such a call invokes the matching primitive and leaves the
\* queue dispatching, the new Subject in flight.
C7_IdleEnqueueDispatches ==
  [][IdleEnqueue => (MatchingCall /\ flushing' = nextSubj)]_vars

\* C7 amended: such a call invokes the matching primitive; when the primitive
\* returns the new Subject is in flight, and when it throws the Subject has
\* received the exception and nothing is in flight.
C7_IdleEnqueueDispatchesOrFails ==
  [][IdleEnqueue =>
       /\ MatchingCall
       /\ \/ flushing' = nextSubj /\ updating' /\ resOp' = nextSubj /\ notif' = notif
          \/ /\ flushing' = NULL
             /\ ~updating'
             /\ notif' = Append(notif, [subj |-> nextSubj, k |-> "error",
                                        v |-> [type |-> "exception", op |-> nextSubj]])]_vars

\* A first enqueue whose primitive threw, then a second one now in flight.
C7_Witness ==
  /\ Len(calls) = 2
  /\ queue = <<>>
  /\ flushing = calls[2].subj
  /\ notif = <<[subj |-> calls[1].subj, k |-> "error",
                v |-> [type |-> "exception", op |-> calls[1].subj]]>>

\* ------------------------------------------------- claims on the locator
\* A run of boxes as the format has them: each declared size is the bytes
\* the box takes, at least the 8 of its header.
ValidRun(boxes) ==
  \A k \in 1..Len(boxes) : boxes[k].size = boxes[k].len /\ boxes[k].size >= 8

RECURSIVE OffsetOfBox(_, _)
OffsetOfBox(boxes, k) ==
  IF k = 1 THEN 0 ELSE OffsetOfBox(boxes, k - 1) + boxes[k - 1].len

\* Offset of the first box of the run with that name, -1 when there is none.
FirstMatch(boxes, code) ==
  LET hits == {k \in 1..Len(boxes) : NameCode(boxes[k].name) = code}
  IN IF hits = {}
     THEN -1
     ELSE OffsetOfBox(boxes, CHOOSE k \in hits : \A j \in hits : k <= j)

\* C8: on a valid run of boxes findAtom returns the offset of the first box
\* with the requested name, and -1 when no box has it.
C8_FindAtomFirstMatch ==
  (pc = "findAtom" /\ ValidRun(made))
    => out = Returned("number", FirstMatch(made, arg), <<>>)

\* The scan from offset i reads, before it stops at a box of the requested
\* name, a box header whose size is 0 or reaches past the end of the buffer.
RECURSIVE ReachesBadBox(_, _, _)
ReachesBadBox(b, code, i) ==
  IF i + 8 < Len(b)
  THEN LET sz == be4toi(b, i)
       IN IF sz = 0 \/ i + sz > Len(b)
          THEN TRUE
          ELSE IF be4toi(b, i + 4) = code
          THEN FALSE
          ELSE ReachesBadBox(b, code, i + sz)
  ELSE FALSE

\* C9: a scan by findAtom or getAtomContent that reads a box of size 0, or
\* one reaching past the end of the buffer, fails with an error.
C9_BadBoxIsError ==
  (pc \in {"findAtom", "getAtomContent"} /\ ReachesBadBox(buf, arg, 0))
    => out.kind = "error"

\* ---------------------------------------------------- claims on parseSidx
RECURSIVE SumSize(_, _)
SumSize(refs, n) ==
  IF n = 0 THEN 0 ELSE SumSize(refs, n - 1) + refs[n].size

RECURSIVE SumDuration(_, _)
SumDuration(refs, n) ==
  IF n = 0 THEN 0 ELSE SumDuration(refs, n - 1) + refs[n].d

\* parseSidx was called on a version-0 box with earliest presentation time 0,
\* first offset 0 and media references only.
PlainSidxParsed ==
  /\ pc = "parseSidx"
  /\ made.version = 0
  /\ made.ept = 0
  /\ made.first = 0
  /\ \A k \in 1..Len(made.refs) : made.refs[k].type = 0

\* The result has the box's timescale and one segment per record, with the
\* ranges counted from byte `from`.
SegmentsFrom(from) ==
  /\ out.kind = "object"
  /\ out.timescale = made.timescale
  /\ Len(out.segments) = Len(made.refs)
  /\ \A i \in 1..Len(made.refs) :
       /\ out.segments[i].ts = SumDuration(made.refs, i - 1)
       /\ out.segments[i].d = made.refs[i].d
       /\ out.segments[i].range = <<from + SumSize(made.refs, i - 1),
                                    from + SumSize(made.refs, i) - 1>>

\* C10 as stated: the ranges are counted from the caller's offset A.
C10_RangesFromAnchor ==
  PlainSidxParsed => SegmentsFrom(arg)

\* C10 amended: the ranges are counted from A plus the size of the sidx box.
C10_RangesFromAnchorPlusBoxSize ==
  PlainSidxParsed => SegmentsFrom(arg + SidxSize(made))

\* The records (100, 500) and (150, 500) decoded with A = 1000 from a sidx
\* box of 56 bytes.
C10_Witness ==
  /\ PlainSidxParsed
  /\ arg = 1000
  /\ made.refs = <<[type |-> 0, size |-> 100, d |-> 500],
                   [type |-> 0, size |-> 150, d |-> 500]>>
  /\ out.timescale = 1000
  /\ out.segments = <<[ts |-> 0, d |-> 500, r |-> 0, range |-> <<1056, 1155>>],
                      [ts |-> 500, d |-> 500, r |-> 0, range |-> <<1156, 1305>>]>>

\* The buffer of the same boxes without the sidx box.
WithoutSidx ==
  Concat([k \in 1..Len(made.pre) |-> BoxBytes(made.pre[k])])
  \o Concat([k \in 1..Len(made.post) |-> BoxBytes(made.post[k])])

\* C11: parseSidx on a sidx box whose version is neither 0 nor 1 fails with
\* an error, which is not the result it gives for a buffer without a sidx box.
C11_UnknownVersionIsError ==
  (pc = "parseSidx" /\ made.version \notin {0, 1})
    => /\ out.kind = "error"
       /\ out # parseSidx(WithoutSidx, arg)

\* parseSidx was called on a box of version 0 or 1, one of whose reference
\* records has its type bit set.
IndexRefParsed ==
  /\ pc = "parseSidx"
  /\ made.version \in {0, 1}
  /\ \E k \in 1..Len(made.refs) : made.refs[k].type = 1

\* C12: a reference record of type 1, at any position of a box of version 0
\* or 1, makes parseSidx throw "not implemented"; no segment list comes back,
\* not even the segments of the records before it.
C12_IndexRefIsError ==
  IndexRefParsed
    => /\ out.kind = "error"
       /\ out.msg = "not implemented"
       /\ out.segments = <<>>

\* A media record followed by a record of type 1: the call has thrown.
C12_Witness ==
  /\ IndexRefParsed
  /\ made.refs = <<[type |-> 0, size |-> 100, d |-> 500],
                   [type |-> 1, size |-> 100, d |-> 500]>>
  /\ out.kind = "error"

\* parseSidx was called on a box of version 0 or 1 with media references
\* only.
MediaSidxParsed ==
  /\ pc = "parseSidx"
  /\ made.version \in {0, 1}
  /\ \A k \in 1..Len(made.refs) : made.refs[k].type = 0

\* C18: for a box of version 0 or 1 with media references only, the first
\* range starts at anchor + first offset + size of the sidx box and the first
\* segment at the earliest presentation time; each range is
\* [start, start + size - 1], the next one starts at start + size, and the
\* next segment at ts + d.
C18_Accumulation ==
  MediaSidxParsed
    => /\ out.kind = "object"
       /\ Len(out.segments) = Len(made.refs)
       /\ \A i \in 1..Len(out.segments) :
            LET seg == out.segments[i]
            IN /\ seg.d = made.refs[i].d
               /\ seg.range[2] = seg.range[1] + made.refs[i].size - 1
               /\ IF i = 1
                  THEN /\ seg.range[1] = arg + made.first + SidxSize(made)
                       /\ seg.ts = made.ept
                  ELSE /\ seg.range[1] = out.segments[i - 1].range[1]
                                           + made.refs[i - 1].size
                       /\ seg.ts = out.segments[i - 1].ts + made.refs[i - 1].d

\* A version-1 box of 64 bytes with earliest presentation time 7 and first
\* offset 5, decoded with anchor 1000.
C18_Witness ==
  /\ MediaSidxParsed
  /\ made.version = 1
  /\ arg = 1000
  /\ made.refs = <<[type |-> 0, size |-> 150, d |-> 500],
                   [type |-> 0, size |-> 100, d |-> 500]>>
  /\ out.segments = <<[ts |-> 7, d |-> 500, r |-> 0, range |-> <<1069, 1218>>],
                      [ts |-> 507, d |-> 500, r |-> 0, range |-> <<1219, 1318>>]>>

\* ------------------------------------------- claims on the pssh patcher
\* The bytes of the run of boxes the buffer was made from.
Original == Concat([k \in 1..Len(made) |-> BoxBytes(made[k])])

HasMoov(boxes) == \E k \in 1..Len(boxes) : boxes[k].name = "moov"

\* 32 hexadecimal digits once the hyphens are removed.
ValidSystemId(str) ==
  LET s == withoutHyphens(str)
  IN Len(s) = 32 /\ \A k \in 1..Len(s) : hexValue(s[k]) # UNDEFINED

\* patchPssh was called with a non-empty list of valid descriptors on a
\* buffer that holds a moov box.
PatchedWithMoov ==
  /\ pc = "patchPssh"
  /\ HasMoov(made)
  /\ Len(arg) > 0
  /\ \A k \in 1..Len(arg) : ValidSystemId(arg[k].systemId)

\* Sum over the descriptors of 8 + fixed + len(privateData).
RECURSIVE SumPssh(_, _, _)
SumPssh(pssList, n, fixed) ==
  IF n = 0
  THEN 0
  ELSE SumPssh(pssList, n - 1, fixed) + 8 + fixed + Len(pssList[n].privateData)

C14_UnpatchedIsIdentity ==
  (pc = "patchPssh" /\ (Len(arg) = 0 \/ ~HasMoov(made)))
    => out = Returned("bytes", 0, Original)

\* C15: createPssh throws for every system id that is not 32 hexadecimal
\* digits once its hyphens are removed, and patchPssh given such a
\* descriptor for a buffer with a moov box returns no patched buffer.
C15_BadSystemIdRejected ==
  /\ (pc = "createPssh" /\ ~ValidSystemId(arg[1].systemId))
       => out.kind = "error"
  /\ (pc = "patchPssh" /\ HasMoov(made)
        /\ \E k \in 1..Len(arg) : ~ValidSystemId(arg[k].systemId))
       => out.kind = "error"

\* The first moov box of the run: its index, offset and size.
MoovIndex == CHOOSE k \in 1..Len(made) :
               /\ made[k].name = "moov"
               /\ \A j \in 1..(k - 1) : made[j].name # "moov"

\* The moov region followed by one pssh box per descriptor, in list order,
\* its first 4 bytes replaced by its own length.
PatchedRegion ==
  LET p == OffsetOfBox(made, MoovIndex)
      s == made[MoovIndex].size
      region == SubSeq(Original, p + 1, p + s)
                \o Concat([i \in 1..Len(arg) |-> createPssh(arg[i]).bytes])
  IN itobe4(Len(region)) \o SubSeq(region, 5, Len(region))

\* C19: patchPssh leaves its input as it was and returns the bytes before
\* the moov box, the patched region, and the bytes after the moov box.
C19_PatchedLayout ==
  PatchedWithMoov
    => LET p == OffsetOfBox(made, MoovIndex)
           s == made[MoovIndex].size
       IN /\ buf = Original
          /\ out = Returned("bytes", 0,
                             SubSeq(Original, 1, p) \o PatchedRegion
                             \o SubSeq(Original, p + s + 1, Len(Original)))

\* ------------------------------------------ further claims on the queue
\* C16: flush called with an entry in flight, an empty FIFO or the
\* SourceBuffer updating does nothing: no primitive is invoked, the FIFO and
\* the Subject in flight stay as they are. flush is called by updateend and
\* by queueAction; an entry enqueued while the SourceBuffer is busy is put
\* in the FIFO and nothing else changes.
C16_FlushNoOp ==
  [][/\ (/\ endPending /\ ~endPending'
         /\ buffer # NOBUFFER
         /\ (flushing # NULL \/ queue = <<>> \/ updating))
        => <<queue, flushing, calls, notif>>' = <<queue, flushing, calls, notif>>
     /\ (/\ nextSubj' = nextSubj + 1
         /\ buffer # NOBUFFER
         /\ (flushing # NULL \/ updating))
        => /\ <<flushing, calls, notif>>' = <<flushing, calls, notif>>
           /\ Len(queue') = Len(queue) + 1
           /\ queue'[1].subj = nextSubj
           /\ Tail(queue') = queue]_vars

\* Two entries enqueued while the SourceBuffer runs an operation started
\* through another channel: both wait, no primitive has been invoked.
C16_Witness ==
  /\ buffer # NOBUFFER
  /\ Len(queue) = 2
  /\ flushing = NULL
  /\ updating
  /\ resOp = NULL
  /\ calls = <<>>

\* C17: on a disposed queue appendBuffer, appendStream and removeBuffer
\* invoke no primitive and leave the queue disposed, its FIFO empty and
\* nothing in flight.
C17_DisposedIsTerminal ==
  [][(buffer = NOBUFFER /\ nextSubj' = nextSubj + 1)
       => /\ calls' = calls
          /\ buffer' = NOBUFFER
          /\ queue' = <<>>
          /\ flushing' = NULL]_vars

\* C20: when the observer calls dispose() from inside the success
\* notification, onUpdate throws nothing and the queue is left disposed, its
\* FIFO empty and nothing in flight; when it enqueues from inside the
\* notification, no primitive is invoked before the Subject in flight is
\* cleared, and the new entry waits in the FIFO.
C20_ReentrantObserver ==
  [][/\ (updating /\ ~updating' /\ buffer # NOBUFFER /\ buffer' = NOBUFFER)
        => /\ raised' = "none"
           /\ queue' = <<>>
           /\ flushing' = NULL
     /\ (updating /\ ~updating' /\ nextSubj' = nextSubj + 1)
        => /\ calls' = calls
           /\ flushing' = NULL
           /\ queue'[1].subj = nextSubj]_vars

====
